---- MODULE Spec2Model ----
(***************************************************************************)
(* Model of rustygetdata's Dirfile wrapper (src/src/getdata.rs): a handle  *)
(* around the GetData engine, its accessors and get_data, which allocates  *)
(* a typed raw buffer, has the engine fill it and converts it to Vec<f64>. *)
(*                                                                         *)
(* Machine integers are kept at their real width.  TLC's integers are 32   *)
(* bits wide, so a 64-bit quantity is a little-endian tuple of base-256    *)
(* limbs (8 limbs = 64 bits) and the arithmetic is done limb by limb.      *)
(***************************************************************************)
EXTENDS Integers, Sequences, FiniteSets, TLC

----------------------------------------------------------------------------
(* Bounds of the model *)

\* largest ordinary frame count of the modelled dirfiles
MaxFrames == 2
\* largest ordinary samples-per-frame of a field
MaxSpf == 2
\* number of get_data calls followed on one handle
MaxCalls == 3
\* number of get_data calls followed on one handle of the fetch specification
FetchCalls == 2
\* bytes the allocator can hand out for one raw buffer
HeapBytes == 192
\* a field's data starts at any of the stored values 0..MaxSeed of its type
MaxSeed == 2

----------------------------------------------------------------------------
(* Limb arithmetic: little-endian, base 256 *)

Base == 256

RECURSIVE Zeros(_)
Zeros(k) == IF k = 0 THEN <<>> ELSE <<0>> \o Zeros(k - 1)

RECURSIVE Limbs(_, _)
\* the k low limbs of the natural number n
Limbs(n, k) == IF k = 0 THEN <<>> ELSE <<n % Base>> \o Limbs(n \div Base, k - 1)

Pad(a, k) == IF Len(a) >= k THEN SubSeq(a, 1, k) ELSE a \o Zeros(k - Len(a))

IsZero(a) == \A i \in 1..Len(a) : a[i] = 0

RECURSIVE CmpFrom(_, _, _)
CmpFrom(a, b, i) ==
    IF i = 0 THEN 0
    ELSE IF a[i] < b[i] THEN -1
    ELSE IF a[i] > b[i] THEN 1
    ELSE CmpFrom(a, b, i - 1)

\* -1, 0, 1 as a < b, a = b, a > b (unsigned; the shorter one is zero-extended)
Cmp(a, b) ==
    LET k == IF Len(a) > Len(b) THEN Len(a) ELSE Len(b)
    IN  CmpFrom(Pad(a, k), Pad(b, k), k)

RECURSIVE AddCarry(_, _, _)
\* a + b + c for equal lengths; one limb longer than a
AddCarry(a, b, c) ==
    IF a = <<>> THEN <<c>>
    ELSE LET t == a[1] + b[1] + c
         IN  <<t % Base>> \o AddCarry(Tail(a), Tail(b), t \div Base)

RECURSIVE MulSmall(_, _, _)
\* a * d + c for a small d; one limb longer than a
MulSmall(a, d, c) ==
    IF a = <<>> THEN <<c>>
    ELSE LET t == a[1] * d + c
         IN  <<t % Base>> \o MulSmall(Tail(a), d, t \div Base)

RECURSIVE Trim(_)
\* a without its high zero limbs
Trim(a) == IF a # <<>> /\ a[Len(a)] = 0 THEN Trim(SubSeq(a, 1, Len(a) - 1)) ELSE a

RECURSIVE MulLong(_, _)
\* the product of a and b, Len(a) + Len(b) limbs
MulLong(a, b) ==
    IF b = <<>> THEN Zeros(Len(a))
    ELSE LET k == Len(a) + Len(b)
             p == Pad(MulSmall(a, b[1], 0), k)
             r == <<0>> \o MulLong(a, Tail(b))
         IN  SubSeq(AddCarry(p, r, 0), 1, k)

\* the full product, Len(a) + Len(b) limbs
Mul(a, b) == Pad(MulLong(Trim(a), Trim(b)), Len(a) + Len(b))

\* two's complement negation at the width of a
Neg(a) ==
    LET c == [i \in 1..Len(a) |-> Base - 1 - a[i]]
    IN  SubSeq(AddCarry(c, Limbs(1, Len(a)), 0), 1, Len(a))

RECURSIVE DivSmallFrom(_, _, _, _)
DivSmallFrom(a, d, i, rem) ==
    IF i = 0 THEN [q |-> <<>>, r |-> rem]
    ELSE LET cur  == rem * Base + a[i]
             rest == DivSmallFrom(a, d, i - 1, cur % d)
         IN  [q |-> rest.q \o <<cur \div d>>, r |-> rest.r]

\* quotient (same length as a) and remainder of a by a small d
DivSmall(a, d) == DivSmallFrom(a, d, Len(a), 0)

RECURSIVE BitLenSmall(_)
BitLenSmall(n) == IF n = 0 THEN 0 ELSE 1 + BitLenSmall(n \div 2)

RECURSIVE BitLenFrom(_, _)
BitLenFrom(a, i) ==
    IF i = 0 THEN 0
    ELSE IF a[i] # 0 THEN 8 * (i - 1) + BitLenSmall(a[i])
    ELSE BitLenFrom(a, i - 1)

\* number of significant bits of a
BitLen(a) == BitLenFrom(a, Len(a))

RECURSIVE Pow2(_)
Pow2(k) == IF k = 0 THEN 1 ELSE 2 * Pow2(k - 1)

\* the small natural number a stands for (its high limbs are zero)
RECURSIVE ToNat(_)
ToNat(a) == IF a = <<>> THEN 0 ELSE a[1] + Base * ToNat(Tail(a))

----------------------------------------------------------------------------
(* Machine integers of the 64-bit target *)

\* i64 / usize / off_t are 8 limbs, u32 / unsigned int 4 limbs
WordLimbs == 8
U32Limbs == 4

\* isize::MAX = 2^63 - 1
ISIZE_MAX == <<255, 255, 255, 255, 255, 255, 255, 127>>
\* the bit pattern of i64::MIN, which is also 2^63 read as unsigned
I64_MIN == <<0, 0, 0, 0, 0, 0, 0, 128>>

\* the sign of a 64-bit pattern read as i64
I64Negative(a) == a[WordLimbs] >= 128

\* |a| of an i64, as an unsigned 64-bit number
I64Magnitude(a) == IF I64Negative(a) THEN Neg(a) ELSE a

\* `x as i64` and `x as usize` of a u32: zero extension
U32AsWord(x) == Pad(x, WordLimbs)

\* `x as usize` of an i64: the same 64 bits, read as unsigned
I64AsUsize(a) == a

\* a * b of i64 (b >= 0) leaves the i64 range
I64MulOverflows(a, b) ==
    LET m == Mul(I64Magnitude(a), b)
    IN  IF I64Negative(a) THEN Cmp(m, I64_MIN) = 1 ELSE Cmp(m, ISIZE_MAX) = 1

\* a * b of i64 as a build without overflow checks computes it: modulo 2^64
I64WrappingMul(a, b) == SubSeq(Mul(a, b), 1, WordLimbs)

\* a - b for a >= b, at the width of a
Sub(a, b) == SubSeq(AddCarry(a, Neg(Pad(b, Len(a))), 0), 1, Len(a))

----------------------------------------------------------------------------
(* Element type tags (gd_type_t) *)

IntTags == {"GD_UINT8", "GD_INT8", "GD_UINT16", "GD_INT16",
            "GD_UINT32", "GD_INT32", "GD_UINT64", "GD_INT64"}
FloatTags == {"GD_FLOAT32", "GD_FLOAT64"}
\* the eleven tags get_data has an arm for
RecognizedTags == IntTags \cup FloatTags \cup {"GD_STRING"}
\* tags of the engine that fall to the default arm
OtherTags == {"GD_COMPLEX64", "GD_UNKNOWN"}
AllTags == RecognizedTags \cup OtherTags

\* size_of the element type of the raw buffer of each arm, in bytes
ElemBytes(tag) ==
    CASE tag \in {"GD_UINT8", "GD_INT8"} -> 1
      [] tag \in {"GD_UINT16", "GD_INT16"} -> 2
      [] tag \in {"GD_UINT32", "GD_INT32", "GD_FLOAT32"} -> 4
      [] tag \in {"GD_UINT64", "GD_INT64", "GD_FLOAT64"} -> 8
      [] tag = "GD_STRING" -> 16
      [] OTHER -> 0

\* the buffer's element type is a signed integer
SignedTag(tag) == tag \in {"GD_INT8", "GD_INT16", "GD_INT32", "GD_INT64"}

----------------------------------------------------------------------------
(* f64 values.  A finite double is the real number                         *)
(* (-1)^neg * mag * 2^e2 * 10^e10, mag a 72-bit natural number; every      *)
(* value has one such record: integers have e2 = e10 = 0.                  *)

F64Limbs == 9

F64(neg, mag, e2, e10) == [neg |-> neg, mag |-> Pad(mag, F64Limbs), e2 |-> e2, e10 |-> e10]

\* the literal 0.0
F64Zero == F64(FALSE, <<>>, 0, 0)

\* an unsigned integer of at most 64 bits rounded to the 53-bit significand of
\* a double, ties to even: what `as f64` does to an integer
RoundTo53(m) ==
    LET len == BitLen(m)
    IN  IF len <= 53 THEN Pad(m, F64Limbs)
        ELSE LET d    == Pow2(len - 53)
                 qr   == DivSmall(m, d)
                 half == d \div 2
                 up   == qr.r > half \/ (qr.r = half /\ qr.q[1] % 2 = 1)
                 q    == IF up THEN SubSeq(AddCarry(qr.q, Limbs(1, Len(m)), 0), 1, Len(m))
                               ELSE qr.q
             IN  SubSeq(MulSmall(Pad(q, F64Limbs), d, 0), 1, F64Limbs)

\* `v as f64` of an unsigned integer held in the limbs p
UnsignedAsF64(p) == F64(FALSE, RoundTo53(p), 0, 0)

\* SignedAsF64 with the buffer declared unsigned: the sign bit read as value
SignedAsF64_unsigned(p) == F64(FALSE, RoundTo53(p), 0, 0)

\* `v as f64` of a two's complement integer held in the limbs p
SignedAsF64(p) ==
    IF p[Len(p)] >= 128 THEN F64(TRUE, RoundTo53(Neg(p)), 0, 0)
    ELSE F64(FALSE, RoundTo53(p), 0, 0)

\* `v as f64` of an f32: every f32 is a double, the value is kept
F32AsF64(v) == v

----------------------------------------------------------------------------
(* Text cells: a CString is its bytes before the NUL, as numbers 1..255 *)

IsDigit(b) == b \in 48..57

IsCont(b) == b \in 128..191

RECURSIVE ValidUtf8From(_, _)
\* the bytes of s from index i on are well-formed UTF-8
ValidUtf8From(s, i) ==
    LET n == Len(s)
        b == s[i]
    IN  IF i > n THEN TRUE
        ELSE IF b < 128 THEN ValidUtf8From(s, i + 1)
        ELSE IF b \in 194..223 THEN
            i + 1 <= n /\ IsCont(s[i + 1]) /\ ValidUtf8From(s, i + 2)
        ELSE IF b \in 224..239 THEN
            /\ i + 2 <= n
            /\ IsCont(s[i + 1]) /\ IsCont(s[i + 2])
            /\ (b = 224 => s[i + 1] >= 160)
            /\ (b = 237 => s[i + 1] <= 159)
            /\ ValidUtf8From(s, i + 3)
        ELSE IF b \in 240..244 THEN
            /\ i + 3 <= n
            /\ IsCont(s[i + 1]) /\ IsCont(s[i + 2]) /\ IsCont(s[i + 3])
            /\ (b = 240 => s[i + 1] >= 144)
            /\ (b = 244 => s[i + 1] <= 143)
            /\ ValidUtf8From(s, i + 4)
        ELSE FALSE

\* CString::into_string: Ok(the text) when the bytes are UTF-8, Err otherwise
into_string(c) ==
    IF ValidUtf8From(c, 1) THEN [ok |-> TRUE, s |-> c] ELSE [ok |-> FALSE, s |-> <<>>]

RECURSIVE SkipDigits(_, _)
\* the first index from i on that holds no digit
SkipDigits(s, i) == IF i <= Len(s) /\ IsDigit(s[i]) THEN SkipDigits(s, i + 1) ELSE i

RECURSIVE DigitsValue(_, _, _, _)
\* the number written by the digits among s[i..j-1], after the digits in acc
DigitsValue(s, i, j, acc) ==
    IF i >= j THEN acc
    ELSE IF IsDigit(s[i]) THEN DigitsValue(s, i + 1, j, acc * 10 + (s[i] - 48))
    ELSE DigitsValue(s, i + 1, j, acc)

Lower(s) == [i \in 1..Len(s) |-> IF s[i] \in 65..90 THEN s[i] + 32 ELSE s[i]]

F64Inf(neg) == [neg |-> neg, mag |-> "inf", e2 |-> 0, e10 |-> 0]
F64NaN == [neg |-> FALSE, mag |-> "nan", e2 |-> 0, e10 |-> 0]

RECURSIVE StripZeros(_, _)
StripZeros(n, e) == IF n # 0 /\ n % 10 = 0 THEN StripZeros(n \div 10, e + 1) ELSE [n |-> n, e |-> e]

RECURSIVE DecNorm(_, _, _)
\* n * 2^e2 * 10^e with as little left in the decimal exponent as the
\* integer range allows
DecNorm(n, e2, e) ==
    IF e < 0 /\ n % 5 = 0 THEN DecNorm(n \div 5, e2 - 1, e + 1)
    ELSE IF e > 0 /\ n < 100000000 THEN DecNorm(n * 10, e2, e - 1)
    ELSE [n |-> n, e2 |-> e2, e |-> e]

\* the double nearest to (-1)^neg * n * 10^e
DecimalF64(neg, n, e) ==
    IF n = 0 THEN F64(neg, <<>>, 0, 0)
    ELSE LET st == StripZeros(n, e)
             nm == DecNorm(st.n, 0, st.e)
         IN  F64(neg, Limbs(nm.n, 4), nm.e2, nm.e)

\* str::parse::<f64>: [sign] (digits [. digits] | . digits) [e [sign] digits],
\* or inf, infinity, nan in any case; anything else is an error
parse_f64(s) ==
    LET n       == Len(s)
        signed  == n >= 1 /\ s[1] \in {43, 45}
        neg     == n >= 1 /\ s[1] = 45
        p0      == IF signed THEN 2 ELSE 1
        word    == Lower(SubSeq(s, p0, n))
        i1      == SkipDigits(s, p0)
        hasDot  == i1 <= n /\ s[i1] = 46
        i2      == IF hasDot THEN SkipDigits(s, i1 + 1) ELSE i1
        nInt    == i1 - p0
        nFrac   == IF hasDot THEN i2 - (i1 + 1) ELSE 0
        hasExp  == i2 <= n /\ s[i2] \in {69, 101}
        eSigned == hasExp /\ i2 + 1 <= n /\ s[i2 + 1] \in {43, 45}
        eNeg    == eSigned /\ s[i2 + 1] = 45
        e0      == IF eSigned THEN i2 + 2 ELSE i2 + 1
        e1      == IF hasExp THEN SkipDigits(s, e0) ELSE i2
        expOk   == IF hasExp THEN e1 > e0 /\ e1 = n + 1 ELSE i2 = n + 1
        expVal  == IF hasExp THEN DigitsValue(s, e0, e1, 0) ELSE 0
        exp     == IF eNeg THEN 0 - expVal ELSE expVal
        err     == [ok |-> FALSE, v |-> F64Zero]
    IN  IF word \in {<<105, 110, 102>>, <<105, 110, 102, 105, 110, 105, 116, 121>>}
            THEN [ok |-> TRUE, v |-> F64Inf(neg)]
        ELSE IF word = <<110, 97, 110>> THEN [ok |-> TRUE, v |-> F64NaN]
        ELSE IF nInt + nFrac = 0 \/ ~expOk THEN err
        ELSE [ok |-> TRUE, v |-> DecimalF64(neg, DigitsValue(s, p0, i2, 0), exp - nFrac)]

\* s.parse::<f64>().unwrap_or(0.0)
parse_or_zero(s) == LET r == parse_f64(s) IN IF r.ok THEN r.v ELSE F64Zero

----------------------------------------------------------------------------
(* State *)

VARIABLES
    overflow_checks,  \* the build panics on integer overflow (debug profile)
    engine,           \* the dirfile as the format engine reports it
    handle,           \* "Unopened", "Open" or "Dropped": the Dirfile value
    dirfile_open,     \* Dirfile.dirfile_open: 0 (no DIRFILE) or the DIRFILE's id
    live,             \* ids of the DIRFILEs the engine has opened and not released
    releases,         \* how many times the engine was asked to release a DIRFILE
    history,          \* the get_data calls made on the handle, oldest first
    ret,              \* what the last accessor call returned
    pc                \* "running", or how the process ended

vars == <<overflow_checks, engine, handle, dirfile_open, live, releases, history, ret, pc>>

\* field names the caller may ask for; "fake_field" is in no dirfile
FieldNames == {"a", "b"}
FAKE_FIELD_NAME == "fake_field"
Names == FieldNames \cup {FAKE_FIELD_NAME}

----------------------------------------------------------------------------
(* The format engine: its answers are functions of the unmodified dirfile *)

\* the largest value of an unsigned integer of w bytes / of a signed one
UMax(w) == Pad([i \in 1..w |-> 255], WordLimbs)
SMax(w) == Pad([i \in 1..w |-> IF i = w THEN 127 ELSE 255], WordLimbs)
\* the magnitude of the smallest value of a signed integer of w bytes
SMinMag(w) == Pad([i \in 1..w |-> IF i = w THEN 128 ELSE 0], WordLimbs)

IntVal(neg, mag) == [neg |-> neg, mag |-> Pad(mag, WordLimbs)]

\* the sample values stored in a field of each type: for the integers the
\* ends of the type's range and a value next to zero
StoredValues(tag) ==
    CASE tag \in IntTags /\ SignedTag(tag) ->
            <<IntVal(TRUE, SMinMag(ElemBytes(tag))), IntVal(FALSE, SMax(ElemBytes(tag))),
              IntVal(TRUE, Limbs(1, 1))>>
      [] tag \in IntTags /\ ~SignedTag(tag) ->
            <<IntVal(FALSE, UMax(ElemBytes(tag))), IntVal(FALSE, <<>>), IntVal(FALSE, Limbs(1, 1))>>
      [] tag = "GD_FLOAT32" ->
            <<F64(FALSE, Limbs(3, 1), -1, 0), F64(TRUE, Limbs(2, 1), 0, 0), F64Zero>>
      [] tag = "GD_FLOAT64" ->
            <<DecimalF64(FALSE, 1, -1), F64(TRUE, Limbs(2, 1), 0, 0), F64(FALSE, Limbs(3, 1), -1, 0)>>
      \* "1.5", a byte that is no UTF-8, "abc"
      [] tag = "GD_STRING" -> <<(<<49, 46, 53>>), (<<255>>), (<<97, 98, 99>>)>>
      [] OTHER -> <<0, 0, 0>>

\* the idx-th stored sample (from 0) of field f
Sample(f, idx) ==
    LET fd == engine.fields[f]
        vs == StoredValues(fd.tag)
    IN  vs[((fd.seed + idx) % Len(vs)) + 1]

\* a stored integer in the native encoding of an integer type: two's complement
Encode(tag, v) ==
    SubSeq(IF v.neg THEN Neg(v.mag) ELSE v.mag, 1, ElemBytes(tag))

\* the element the engine writes for the stored value v of a field of type tag
EngineCell(tag, v) == IF tag \in IntTags THEN Encode(tag, v) ELSE v

gd_nfields == Limbs(Cardinality(DOMAIN engine.fields), U32Limbs)

gd_nframes == engine.nframes

gd_spf(f) == IF f \in DOMAIN engine.fields THEN engine.fields[f].spf ELSE engine.missing.spf

gd_native_type(f) == IF f \in DOMAIN engine.fields THEN engine.fields[f].tag ELSE engine.missing.tag

\* the engine's fill: num_frames frames of num_samp samples each, from frame
\* first_frame and sample first_samp on, as far as the field has data, written
\* as return_type into buf.  ub: the engine wrote past the end of buf.
gd_getdata(f, first_frame, first_samp, num_frames, num_samp, return_type, buf) ==
    LET known     == f \in DOMAIN engine.fields /\ ~I64Negative(engine.nframes)
                        /\ engine.fields[f].tag = return_type
        spfF      == U32AsWord(gd_spf(f))
        stored    == IF known THEN Mul(engine.nframes, spfF) ELSE Zeros(2 * WordLimbs)
        start     == SubSeq(AddCarry(Mul(first_frame, spfF), Pad(first_samp, 2 * WordLimbs), 0),
                            1, 2 * WordLimbs)
        requested == Mul(num_frames, num_samp)
        available == IF Cmp(start, stored) >= 0 THEN Zeros(2 * WordLimbs) ELSE Sub(stored, start)
        written   == IF Cmp(requested, available) = 1 THEN available ELSE requested
        start0    == DivSmall(start, Len(StoredValues(return_type))).r
    IN  [ub  |-> Cmp(written, Limbs(Len(buf), 2)) = 1,
         buf |-> [i \in 1..Len(buf) |->
                    IF Cmp(Limbs(i, 2), written) <= 0
                    THEN EngineCell(return_type, Sample(f, start0 + i - 1))
                    ELSE buf[i]],
         n   |-> written]

----------------------------------------------------------------------------
(* Dirfile::get_data *)

\* FIRST_FRAME as a read position that moves on with every call
FIRST_FRAME_cursor == Limbs(Len(history), WordLimbs)

\* the frame and sample offsets get_data passes to gd_getdata: `0, 0`
FIRST_FRAME == Zeros(WordLimbs)
FIRST_SAMPLE == Zeros(WordLimbs)

\* a name CString::new rejects: it has a NUL byte inside
NulNames == {"nul_inside"}

\* the element vec![0; n] and vec![CString::new("").unwrap(); n] start from
ZeroCell(tag) ==
    CASE tag \in IntTags -> Zeros(ElemBytes(tag))
      [] tag \in FloatTags -> F64Zero
      [] OTHER -> <<>>

\* vec![zero; n] for elements of type tag: a panic when the byte size is
\* above isize::MAX, an abort when the allocator has no such block
vec_alloc(n, tag) ==
    LET bytes == Mul(n, Limbs(ElemBytes(tag), WordLimbs))
    IN  IF Cmp(bytes, ISIZE_MAX) = 1 THEN [kind |-> "panic_capacity", buf |-> <<>>]
        ELSE IF Cmp(bytes, Limbs(HeapBytes, 2)) = 1 THEN [kind |-> "abort_alloc", buf |-> <<>>]
        ELSE [kind |-> "ok", buf |-> [i \in 1..ToNat(SubSeq(n, 1, 2)) |-> ZeroCell(tag)]]

IsText(c) == into_string(c).ok

\* the conversion of the filled raw buffer to Vec<f64>, arm by arm
convert(tag, raw) ==
    CASE tag \in IntTags /\ SignedTag(tag) -> [i \in 1..Len(raw) |-> SignedAsF64(raw[i])]
      [] tag \in IntTags /\ ~SignedTag(tag) -> [i \in 1..Len(raw) |-> UnsignedAsF64(raw[i])]
      [] tag = "GD_FLOAT32" -> [i \in 1..Len(raw) |-> F32AsF64(raw[i])]
      [] tag = "GD_FLOAT64" -> raw
      [] tag = "GD_STRING" ->
            LET texts == SelectSeq(raw, IsText)
            IN  [i \in 1..Len(texts) |-> parse_or_zero(into_string(texts[i]).s)]
      [] OTHER -> <<>>

\* what one get_data call did: how it ended, the vector it returned, and
\* what it asked of the allocator and of the engine on the way
Outcome(field, kind, vec, tag, nframes, spf, total, overflowed, alloc, raw, fills, printed) ==
    [field |-> field, kind |-> kind, vec |-> vec, tag |-> tag, nframes |-> nframes,
     spf |-> spf, total |-> total, overflowed |-> overflowed, alloc |-> alloc,
     raw |-> raw, fills |-> fills, printed |-> printed]

\* one arm of the match for a recognized tag
fetch_arm(field, tag, nframes, spf, total, overflowed) ==
    LET a   == vec_alloc(I64AsUsize(total), tag)
        g   == gd_getdata(field, FIRST_FRAME, FIRST_SAMPLE, I64AsUsize(nframes),
                          U32AsWord(spf), tag, a.buf)
        fill == [first_frame |-> FIRST_FRAME, first_samp |-> FIRST_SAMPLE,
                 num_frames |-> I64AsUsize(nframes), num_samp |-> U32AsWord(spf),
                 return_type |-> tag, buf |-> a.buf, written |-> g.n]
    IN  IF a.kind # "ok"
        THEN Outcome(field, a.kind, <<>>, tag, nframes, spf, total, overflowed, TRUE, <<>>, <<>>, FALSE)
        ELSE Outcome(field, IF g.ub THEN "ub" ELSE "ok", convert(tag, g.buf), tag, nframes, spf,
                     total, overflowed, TRUE, g.buf, <<fill>>, FALSE)

get_data(field) ==
    LET field_type        == gd_native_type(field)
        nframes           == gd_nframes
        samples_per_frame == gd_spf(field)
        overflowed        == I64MulOverflows(nframes, U32AsWord(samples_per_frame))
        total_samples     == I64WrappingMul(nframes, U32AsWord(samples_per_frame))
    IN  IF field \in NulNames
        THEN Outcome(field, "panic_cstring", <<>>, "none", <<>>, <<>>, <<>>, FALSE, FALSE, <<>>, <<>>, FALSE)
        ELSE IF overflow_checks /\ overflowed
        THEN Outcome(field, "panic_overflow", <<>>, field_type, nframes, samples_per_frame,
                     <<>>, TRUE, FALSE, <<>>, <<>>, FALSE)
        ELSE IF field_type \in RecognizedTags
        THEN fetch_arm(field, field_type, nframes, samples_per_frame, total_samples, overflowed)
        ELSE Outcome(field, "ok", <<>>, field_type, nframes, samples_per_frame, total_samples,
                     overflowed, FALSE, <<>>, <<>>, TRUE)

----------------------------------------------------------------------------
(* Initial states: no handle yet, and a dirfile drawn from bounded sets *)

\* 2^62: a frame count whose product with a samples-per-frame of 2 or 4
\* leaves the i64 range
HugeFrames == <<0, 0, 0, 0, 0, 0, 0, 64>>
\* frame counts the engine may report: -1 (its error value), the ordinary
\* ones and a huge one
FrameCounts ==
    {Neg(Limbs(1, WordLimbs)), HugeFrames} \cup {Limbs(n, WordLimbs) : n \in 0..MaxFrames}

\* samples-per-frame values: the ordinary ones and 4, whose product with
\* HugeFrames is 2^64
SpfValues == {Limbs(n, U32Limbs) : n \in (0..MaxSpf) \cup {4}}

FieldDesc(tag, spf, seed) == [tag |-> tag, spf |-> spf, seed |-> seed]

\* a field of any type, any samples-per-frame and any stored data
AnyField ==
    {FieldDesc(t, s, d) : t \in RecognizedTags, s \in SpfValues, d \in 0..MaxSeed}
      \cup {FieldDesc(t, s, 0) : t \in OtherTags, s \in SpfValues}

\* what the engine answers for a field that does not exist: a zero
\* samples-per-frame, an unrecognized type tag, or both
MissingAnswers ==
    {m \in [tag : {"GD_UNKNOWN", "GD_UINT8"}, spf : {Limbs(0, U32Limbs), Limbs(4, U32Limbs)}] :
        m.spf = Limbs(0, U32Limbs) \/ m.tag \notin RecognizedTags}

\* what an accessor returned: a count n or a type tag
Returned(op, field, n, tag) == [op |-> op, field |-> field, n |-> n, tag |-> tag]

NothingReturned == Returned("none", "", <<>>, "")

NoHandle ==
    /\ handle = "Unopened"
    /\ dirfile_open = 0
    /\ live = {}
    /\ releases = 0
    /\ history = <<>>
    /\ ret = NothingReturned
    /\ pc = "running"

\* the dirfiles of the life-cycle specification: two fields of a few types
Init ==
    /\ overflow_checks \in BOOLEAN
    /\ engine \in [nframes : {Limbs(n, WordLimbs) : n \in 1..MaxFrames},
                   fields  : {[f \in FieldNames |-> IF f = "a" THEN da ELSE db] :
                              da \in {FieldDesc(t, Limbs(s, U32Limbs), 0) :
                                        t \in {"GD_INT16", "GD_STRING", "GD_COMPLEX64"},
                                        s \in {MaxSpf}},
                              db \in {FieldDesc(t, Limbs(1, U32Limbs), 1) :
                                        t \in {"GD_UINT8", "GD_FLOAT64"}}},
                   missing : {[tag |-> "GD_UNKNOWN", spf |-> Limbs(0, U32Limbs)]}]
    /\ NoHandle

\* the dirfiles of the fetch specification: field "a" is any field
InitFetch ==
    /\ overflow_checks \in BOOLEAN
    /\ engine \in [nframes : FrameCounts,
                   fields  : {[f \in FieldNames |->
                                 IF f = "a" THEN d ELSE FieldDesc("GD_UINT8", Limbs(1, U32Limbs), 0)] :
                              d \in AnyField},
                   missing : MissingAnswers]
    /\ NoHandle

----------------------------------------------------------------------------
(* Operations *)

\* paths the caller may open; the second has a NUL byte inside
Paths == {"test_file", "nul_inside"}

\* Dirfile::new
New(path) ==
    /\ pc = "running"
    /\ handle = "Unopened"
    /\ IF path \in NulNames
       THEN /\ pc' = "panicked"
            /\ UNCHANGED <<handle, dirfile_open, live>>
       ELSE /\ handle' = "Open"
            /\ dirfile_open' = 1
            /\ live' = live \cup {1}
            /\ pc' = pc
    /\ UNCHANGED <<overflow_checks, engine, releases, history, ret>>

\* after_borrow of a method that consumes the handle
after_borrow_consumed(h) == "Dropped"

\* the state of the handle after a method that borrows it as &self
after_borrow(h) == h

\* an accessor returning the count n or the type tag: the handle is only borrowed
Accessor(op, field, n, tag) ==
    /\ pc = "running"
    /\ handle = "Open"
    /\ ret' = Returned(op, field, n, tag)
    /\ handle' = after_borrow(handle)
    /\ UNCHANGED <<overflow_checks, engine, dirfile_open, live, releases, history, pc>>

\* Dirfile::nfields
Nfields == Accessor("nfields", "", gd_nfields, "")

\* Dirfile::nframes
Nframes == Accessor("nframes", "", gd_nframes, "")

\* Dirfile::spf
Spf(field) == Accessor("spf", field, gd_spf(field), "")

\* Dirfile::field_type
FieldType(field) == Accessor("field_type", field, <<>>, gd_native_type(field))

\* how the process goes on after a get_data call that ended as kind.  A write
\* past the buffer either kills the process or corrupts its memory; nothing
\* is known of a process with corrupted memory, so neither goes on.
PcAfter(kind) ==
    CASE kind = "ok" -> {"running"}
      [] kind = "ub" -> {"crashed", "corrupted"}
      [] kind = "abort_alloc" -> {"aborted"}
      [] OTHER -> {"panicked"}

\* Dirfile::get_data
GetData(field) ==
    /\ pc = "running"
    /\ handle = "Open"
    /\ Len(history) < MaxCalls
    /\ LET r == get_data(field)
       IN  /\ history' = Append(history, r)
           /\ pc' \in PcAfter(r.kind)
    /\ handle' = after_borrow(handle)
    /\ ret' = NothingReturned
    /\ UNCHANGED <<overflow_checks, engine, dirfile_open, live, releases>>

\* the DIRFILEs released when a Dirfile is dropped: the struct has no Drop
\* implementation and its only field is a raw pointer, so none
drop_glue(ptr) == {}

\* the handle goes out of scope
Drop ==
    /\ pc = "running"
    /\ handle = "Open"
    /\ handle' = "Dropped"
    /\ live' = live \ drop_glue(dirfile_open)
    /\ releases' = releases + Cardinality(drop_glue(dirfile_open))
    /\ dirfile_open' = 0
    /\ UNCHANGED <<overflow_checks, engine, history, ret, pc>>

Next ==
    \/ \E path \in Paths : New(path)
    \/ Nfields
    \/ Nframes
    \/ \E f \in Names : Spf(f)
    \/ \E f \in Names : FieldType(f)
    \/ \E f \in Names \cup NulNames : GetData(f)
    \/ Drop

Spec == Init /\ [][Next]_vars

\* the fetch specification: a handle is opened, fetched from and dropped
NextFetch ==
    \/ \E path \in Paths : New(path)
    \/ \E f \in {"a", FAKE_FIELD_NAME} : Len(history) < FetchCalls /\ GetData(f)
    \/ Drop

SpecFetch == InitFetch /\ [][NextFetch]_vars

----------------------------------------------------------------------------
(* Properties *)

\* the natural number n is the product nframes * spf of an i64 and a u32
ProductIs(nframes, spf, n) ==
    IF I64Negative(nframes) THEN IsZero(spf) /\ n = 0
    ELSE Cmp(Mul(nframes, U32AsWord(spf)), Limbs(n, 2)) = 0

\* C1: every vector get_data returns for a field of a recognized type tag has
\* exactly frame_count() * samples_per_frame(field) elements.
C1_LengthIsFramesTimesSpf ==
    \A i \in DOMAIN history :
        LET h == history[i]
        IN  (h.tag \in RecognizedTags /\ h.kind = "ok") => ProductIs(h.nframes, h.spf, Len(h.vec))

\* C2: a get_data call on a field whose type tag is none of the eleven
\* recognized ones returns the empty vector, whatever the frame count and the
\* samples-per-frame are: it asks for no raw buffer, never calls the engine's
\* fill, and does not abort.
C2_UnknownTagYieldsEmpty ==
    \A i \in DOMAIN history :
        LET h == history[i]
        IN  h.tag \in OtherTags =>
                h.kind = "ok" /\ h.vec = <<>> /\ ~h.alloc /\ h.fills = <<>>

\* C3: a get_data call for a field name that is not in the dirfile returns the
\* empty vector and does not abort, whatever the frame count, when the engine
\* answers such a name with a zero samples-per-frame, an unrecognized tag, or
\* both.
C3_MissingFieldYieldsEmpty ==
    \A i \in DOMAIN history :
        LET h == history[i]
        IN  h.field = FAKE_FIELD_NAME => h.kind = "ok" /\ h.vec = <<>>

\* C4: the DIRFILE behind a handle is released exactly once, when the handle
\* is dropped: never twice, and never left open after the drop.
C4_ReleasedExactlyOnce ==
    /\ releases <= 1
    /\ handle = "Dropped" => (releases = 1 /\ live = {})

\* C5: in a fetch of a STRING field the output has one value per text cell, a
\* cell that is no UTF-8 text or no decimal literal gives 0.0 at its own
\* position, and every other cell gives its parsed value at its own position.
C5_BadCellsBecomeZeroInPlace ==
    \A i \in DOMAIN history :
        LET h == history[i]
        IN  (h.tag = "GD_STRING" /\ h.kind = "ok") =>
                /\ Len(h.vec) = Len(h.raw)
                /\ \A k \in 1..Len(h.raw) :
                      h.vec[k] = IF IsText(h.raw[k]) /\ parse_f64(h.raw[k]).ok
                                 THEN parse_f64(h.raw[k]).v ELSE F64Zero

\* C9: a get_data call on a field of a recognized type tag calls the engine's
\* fill exactly once, with frame offset 0, sample offset 0, frame_count()
\* frames, samples_per_frame samples per frame, the field's own tag and a
\* zeroed buffer of frame_count() * samples_per_frame elements, and asks for
\* no more elements than the buffer holds.
C9_OneFillWithinBuffer ==
    \A i \in DOMAIN history :
        LET h == history[i]
            c == h.fills[1]
        IN  h.tag \in RecognizedTags =>
                /\ Len(h.fills) = 1
                /\ c.first_frame = Zeros(WordLimbs) /\ c.first_samp = Zeros(WordLimbs)
                /\ ~I64Negative(h.nframes) /\ c.num_frames = h.nframes
                /\ c.num_samp = U32AsWord(h.spf)
                /\ c.return_type = h.tag
                /\ \A k \in 1..Len(c.buf) : c.buf[k] = ZeroCell(h.tag)
                /\ ProductIs(h.nframes, h.spf, Len(c.buf))
                /\ Cmp(Mul(c.num_frames, c.num_samp), Limbs(Len(c.buf), 2)) <= 0

\* C10: whenever get_data asks for a raw buffer, frame_count() *
\* samples_per_frame has not left the i64 range and total_samples is not
\* negative, so its conversion to the buffer length does not wrap.
C10_TotalSamplesFits ==
    \A i \in DOMAIN history :
        LET h == history[i]
        IN  h.alloc => ~h.overflowed /\ ~I64Negative(h.total)

\* the double that is exactly the stored integer v
ExactF64(v) == [neg |-> v.neg, mag |-> Pad(v.mag, F64Limbs), e2 |-> 0, e10 |-> 0]

\* the integer types of at most 32 bits
NarrowIntTags == {"GD_UINT8", "GD_INT8", "GD_UINT16", "GD_INT16", "GD_UINT32", "GD_INT32"}

SoftFailure(h) == h.kind = "ok" /\ h.printed

\* a fetch of a field after an unrecognized-type fetch of another field
\* returns what the fetch of that field returned before it
SoftFailureIsolated ==
    \A i, j, k \in DOMAIN history :
        (/\ i < j /\ j < k
         /\ SoftFailure(history[j])
         /\ history[i].field = history[k].field
         /\ history[k].field # history[j].field) =>
            /\ history[k].kind = history[i].kind
            /\ history[k].vec = history[i].vec

\* C7: a step in which an accessor or get_data returns leaves the handle Open
\* and the DIRFILE and the dirfile as they were; an Open handle leaves Open
\* only by being dropped; and after an unrecognized-type fetch the other
\* fields are fetched as before.
C7_ReadsLeaveHandleOpen ==
    [][ /\ (ret' # ret \/ history' # history) =>
              /\ handle = "Open" /\ handle' = "Open"
              /\ dirfile_open' = dirfile_open /\ live' = live /\ engine' = engine
        /\ (handle = "Open" /\ handle' # "Open") =>
              (handle' = "Dropped" /\ history' = history /\ ret' = ret)
        /\ SoftFailureIsolated' ]_vars

\* a field was fetched, then a field of unrecognized type, then the first
\* field again, with data, and the handle is still Open
C7_Witness ==
    /\ handle = "Open"
    /\ Len(history) = 3
    /\ SoftFailure(history[2])
    /\ history[1].field = history[3].field
    /\ history[2].field # history[3].field
    /\ history[3].kind = "ok"
    /\ history[3].vec # <<>>

\* C8: for a field of an integer type of at most 32 bits, the i-th value
\* get_data returns is exactly the i-th integer stored in the field, for
\* every sample the engine wrote.
C8_NarrowIntegersAreExact ==
    \A i \in DOMAIN history :
        LET h == history[i]
            n == ToNat(SubSeq(h.fills[1].written, 1, 2))
        IN  (h.tag \in NarrowIntTags /\ h.kind = "ok") =>
                /\ Len(h.vec) >= n
                /\ \A k \in 1..n : h.vec[k] = ExactF64(Sample(h.field, k - 1))

\* a fetch of an INT32 field returned the smallest and the largest i32
C8_Witness ==
    \E i \in DOMAIN history :
        /\ history[i].tag = "GD_INT32"
        /\ history[i].kind = "ok"
        /\ \E k \in DOMAIN history[i].vec :
              history[i].vec[k] = [neg |-> TRUE, mag |-> <<0, 0, 0, 128, 0, 0, 0, 0, 0>>,
                                   e2 |-> 0, e10 |-> 0]
        /\ \E k \in DOMAIN history[i].vec :
              history[i].vec[k] = [neg |-> FALSE, mag |-> <<255, 255, 255, 127, 0, 0, 0, 0, 0>>,
                                   e2 |-> 0, e10 |-> 0]

====
